---- MODULE Spec2Model ----
(***************************************************************************)
(* A model of main/taskprocessor.c: the named task processors, the         *)
(* registry tps_singletons, the default listener with its worker thread,   *)
(* and the reference counted life cycle.                                   *)
(*                                                                         *)
(* Every astobj2 call (ao2_find, ao2_link, ao2_unlink, ao2_ref) and every  *)
(* section between ao2_lock/ao2_unlock or under SCOPED_MUTEX is one atomic *)
(* step; everything between two such steps is a separate step of the       *)
(* calling thread, so threads interleave where the code lets them.         *)
(***************************************************************************)
EXTENDS Integers, Sequences, FiniteSets, TLC

\* ------------------------------------------------------------- bounds
NumClients == 2      \* threads calling the public API
MaxProcs   == 2      \* processors ever allocated
MaxLst     == 2      \* listeners ever allocated
MaxWorkers == 2      \* threads pthread_create can still start
MaxTasks   == 3      \* tasks ever allocated
MaxOps     == 2      \* API calls per client thread

Clients   == 1..NumClients
WorkerIds == (NumClients + 1)..(NumClients + MaxWorkers)
Threads   == Clients \cup WorkerIds
ProcIds   == 1..MaxProcs
LstIds    == 1..MaxLst
NULL      == 0

\* The names callers ask for; "" is the nameless request.
Names == {"a", "A", ""}

\* strcasecmp compares after folding case.
ToLower(s) == IF s = "A" THEN "a" ELSE s

\* !strcasecmp(lhs->name, rhsname)
tps_cmp_cb(lhsname, rhsname) == ToLower(lhsname) = ToLower(rhsname)

\* ast_strlen_zero(name)
ast_strlen_zero(s) == s = ""

VARIABLES
    registry,   \* tps_singletons: the set of linked processors
    tps,        \* the ast_taskprocessor objects
    lst,        \* the ast_taskprocessor_listener objects with their pvt
    wk,         \* the worker threads: the listener served (NULL: not started),
                \* the thread joining it, whether it was joined
    pc,         \* each thread's position; a worker not started waits at "pop"
    loc,        \* each thread's local variables; lk: the processor whose lock
                \* the thread holds on leaving its step (NULL: none)
    held,       \* references each client was handed and has not released
    ops,        \* API calls each client has made
    nextTask,   \* tasks allocated so far
    pushed,     \* per processor, task ids in the order they were appended
    started,    \* per processor, task ids in the order their callbacks began
    hist,       \* per processor, what has happened to it (observation only);
                \* burst: the tasks pushed before the first one was popped
    unlockedUnheld, \* an ao2_unlock(tps_singletons) ran without the lock held
    crashed     \* the process took a fatal signal

vars == <<registry, tps, lst, wk, pc, loc, held, ops, nextTask, pushed,
          started, hist, unlockedUnheld, crashed>>

\* ------------------------------------------------------------ objects
NoTask == [id |-> 0, self |-> FALSE]

NoTps == [st |-> "none", name |-> "", ref |-> 0, stats |-> FALSE,
          queue |-> << >>, tps_queue_size |-> 0, max_qsize |-> 0,
          processed |-> 0, listener |-> NULL, shutting_down |-> FALSE]

NoLst == [st |-> "none", ref |-> 0, kind |-> "default", tps |-> NULL,
          wake_up |-> 0, dead |-> 0, poll_thread |-> NULL]

NoWk == [l |-> NULL, tps |-> NULL, joiner |-> NULL, joined |-> FALSE]

NoLoc == [op |-> "", name |-> "", mode |-> "", p |-> NULL, l |-> NULL,
          prev |-> 0, task |-> NoTask, ret |-> NULL, retpc |-> "",
          dup |-> FALSE, cause |-> "", jt |-> NULL, fin |-> FALSE,
          kind |-> "", lk |-> NULL]

NoHist == [by |-> "", unlinked |-> FALSE, shut |-> FALSE, finalRet |-> FALSE,
           burst |-> 0]

\* ------------------------------------------------------------ astobj2
\* ao2_ref(listener, -1): at zero listener_destroy runs and the memory goes.
UnrefLst(L, l) ==
    IF L[l].ref = 1
    THEN [L EXCEPT ![l].ref = 0, ![l].st = "freed"]
    ELSE [L EXCEPT ![l].ref = @ - 1]

\* tps_taskprocessor_destroy: frees stats and name, drops a listener still bound.
tps_taskprocessor_destroy(T, L, p) ==
    << [T EXCEPT ![p].st = "freed", ![p].stats = FALSE, ![p].listener = NULL],
       IF T[p].listener # NULL THEN UnrefLst(L, T[p].listener) ELSE L >>

\* ao2_ref(p, -1): returns <<tps, lst>> after the release.
UnrefTps(T, L, p) ==
    LET T1 == [T EXCEPT ![p].ref = @ - 1]
    IN  IF T[p].ref = 1 THEN tps_taskprocessor_destroy(T1, L, p) ELSE << T1, L >>

\* The processors of the registry that ao2_find(name, OBJ_KEY) can return.
Matches(name) == {q \in registry : tps_cmp_cb(tps[q].name, name)}

FreeProcs == {q \in ProcIds : tps[q].st = "none"}
FreeLsts  == {m \in LstIds : lst[m].st = "none"}
FreeWks   == {w \in WorkerIds : wk[w].l = NULL}
Min(S)    == CHOOSE x \in S : \A y \in S : x <= y

\* ------------------------------------------------------------ initial state
Init ==
    /\ registry = {}
    /\ tps = [q \in ProcIds |-> NoTps]
    /\ lst = [m \in LstIds |-> NoLst]
    /\ wk = [w \in WorkerIds |-> NoWk]
    /\ pc = [t \in Threads |-> IF t \in Clients THEN "idle" ELSE "pop"]
    /\ loc = [t \in Threads |-> NoLoc]
    /\ held = [c \in Clients |-> [q \in ProcIds |-> 0]]
    /\ ops = [c \in Clients |-> 0]
    /\ nextTask = 0
    /\ pushed = [q \in ProcIds |-> << >>]
    /\ started = [q \in ProcIds |-> << >>]
    /\ hist = [q \in ProcIds |-> NoHist]
    /\ unlockedUnheld = FALSE
    /\ crashed = FALSE

\* A fatal signal ends every thread that has not ended already.
Crashed == [t \in Threads |-> IF pc[t] = "exited" THEN "exited" ELSE "crashed"]

\* ------------------------------------------------------------ get-or-create
Modes == {"TPS_REF_DEFAULT", "TPS_REF_IF_EXISTS"}

\* What a thread keeps of a finished call: the call, its result, its cause
\* (a client), or the task whose callback made the call (a worker).  Nothing
\* is kept of a push: its return value is not used.
Result(frame) ==
    IF frame.retpc = "run"
    THEN [NoLoc EXCEPT !.task = frame.task]
    ELSE IF frame.op = "push" THEN NoLoc
    ELSE [NoLoc EXCEPT !.op = frame.op, !.p = frame.p, !.ret = frame.ret,
                       !.cause = frame.cause, !.dup = frame.dup,
                       !.fin = frame.fin,
                       !.l = IF frame.op \in {"get", "create"} THEN frame.l
                             ELSE NULL]

\* ast_taskprocessor_get, nameless request: logs and returns NULL.
GetNameless(c) ==
    /\ pc[c] = "idle" /\ ops[c] < MaxOps
    /\ \E name \in Names :
         /\ ast_strlen_zero(name)
         /\ loc' = [loc EXCEPT ![c] = [NoLoc EXCEPT !.op = "get",
                                                    !.cause = "nameless"]]
    /\ ops' = [ops EXCEPT ![c] = @ + 1]
    /\ UNCHANGED <<registry, tps, lst, wk, pc, held, nextTask, pushed, started,
                   hist, unlockedUnheld, crashed>>

\* ast_taskprocessor_get, found: ao2_find took a reference; the function then
\* unlocks tps_singletons, which it never locked, and returns p.
GetFound(c) ==
    /\ pc[c] = "idle" /\ ops[c] < MaxOps
    /\ \E name \in Names, q \in registry :
         /\ ~ast_strlen_zero(name)
         /\ q \in Matches(name)
         /\ tps' = [tps EXCEPT ![q].ref = @ + 1]
         /\ held' = [held EXCEPT ![c][q] = @ + 1]
         /\ loc' = [loc EXCEPT ![c] = [NoLoc EXCEPT !.op = "get", !.p = q,
                                                    !.ret = q]]
    /\ unlockedUnheld' = TRUE
    /\ ops' = [ops EXCEPT ![c] = @ + 1]
    /\ UNCHANGED <<registry, lst, wk, pc, nextTask, pushed, started, hist, crashed>>

\* ast_taskprocessor_get, not found with TPS_REF_IF_EXISTS: returns NULL.
\* Fault injection: the not-found return also runs the found branch's
\* ao2_unlock(tps_singletons).
GetMissingUnlock(c) ==
    /\ pc[c] = "idle" /\ ops[c] < MaxOps
    /\ \E name \in Names :
         /\ ~ast_strlen_zero(name)
         /\ Matches(name) = {}
         /\ loc' = [loc EXCEPT ![c] = [NoLoc EXCEPT !.op = "get",
                                                    !.cause = "missing"]]
    /\ unlockedUnheld' = TRUE
    /\ ops' = [ops EXCEPT ![c] = @ + 1]
    /\ UNCHANGED <<registry, tps, lst, wk, pc, held, nextTask, pushed, started,
                   hist, crashed>>
GetMissing(c) ==
    /\ pc[c] = "idle" /\ ops[c] < MaxOps
    /\ \E name \in Names, create \in Modes :
         /\ ~ast_strlen_zero(name)
         /\ Matches(name) = {}
         /\ create = "TPS_REF_IF_EXISTS"
         /\ loc' = [loc EXCEPT ![c] = [NoLoc EXCEPT !.op = "get",
                                                    !.cause = "missing"]]
    /\ ops' = [ops EXCEPT ![c] = @ + 1]
    /\ UNCHANGED <<registry, tps, lst, wk, pc, held, nextTask, pushed, started,
                   hist, unlockedUnheld, crashed>>

\* ast_taskprocessor_listener_alloc, then
\* ast_taskprocessor_create_with_listener up to its ao2_link: allocate the
\* listener, then p, its stats and its name, and bind listener and processor
\* to each other.  Neither object is visible to another thread yet.
\*   "listener_alloc": ao2_alloc or callbacks->alloc failed, NULL is returned;
\*   "alloc": ao2_alloc of p failed;
\*   "stats": ast_calloc failed, RAII_VAR's ao2_cleanup(p) destroys p;
\*   "name":  ast_strdup failed, ao2_ref(p, -1) destroys p and ao2_cleanup(p)
\*            then releases the destroyed object once more.
Build(c, name, kind, op) ==
    \E out \in {"ok", "listener_alloc", "alloc", "stats", "name"} :
      LET frame == [NoLoc EXCEPT !.op = op, !.dup = (Matches(name) # {}),
                                 !.kind = kind]
      IN
      IF out = "listener_alloc" \/ FreeLsts = {}
      THEN /\ loc' = [loc EXCEPT ![c] = [frame EXCEPT !.cause = "listener_alloc"]]
           /\ UNCHANGED <<tps, lst, pc, crashed>>
      ELSE LET l == Min(FreeLsts)
               L1 == [lst EXCEPT ![l] = [NoLst EXCEPT !.st = "live", !.ref = 1,
                                                      !.kind = kind]]
           IN
           IF out = "alloc" \/ FreeProcs = {}
           THEN /\ lst' = L1
                /\ loc' = [loc EXCEPT ![c] = [frame EXCEPT !.cause = "alloc",
                                                           !.l = l]]
                /\ pc' = [pc EXCEPT ![c] = "get_ret"]
                /\ UNCHANGED <<tps, crashed>>
           ELSE LET p == Min(FreeProcs) IN
                CASE out = "stats" ->
                     /\ tps' = [tps EXCEPT ![p] = [NoTps EXCEPT !.st = "freed"]]
                     /\ lst' = L1
                     /\ loc' = [loc EXCEPT ![c] = [frame EXCEPT !.cause = "stats",
                                                       !.l = l, !.p = p]]
                     /\ pc' = [pc EXCEPT ![c] = "get_ret"]
                     /\ crashed' = crashed
                  [] out = "name" ->
                     /\ tps' = [tps EXCEPT ![p] = [NoTps EXCEPT !.st = "freed",
                                                                !.ref = -1]]
                     /\ lst' = L1
                     /\ loc' = [loc EXCEPT ![c] = [frame EXCEPT !.cause = "name",
                                                       !.l = l, !.p = p]]
                     /\ \E b \in BOOLEAN :
                          /\ crashed' = b
                          /\ pc' = IF b THEN Crashed
                                   ELSE [pc EXCEPT ![c] = "get_ret"]
                  [] OTHER ->
                     /\ tps' = [tps EXCEPT ![p] = [NoTps EXCEPT !.st = "live",
                                    !.ref = 2, !.stats = TRUE, !.name = name,
                                    !.listener = l]]
                     /\ lst' = [L1 EXCEPT ![l].ref = @ + 1, ![l].tps = p]
                     /\ loc' = [loc EXCEPT ![c] = [frame EXCEPT !.l = l, !.p = p]]
                     /\ pc' = [pc EXCEPT ![c] = "link"]
                     /\ crashed' = crashed

\* ast_taskprocessor_get, not found with TPS_REF_DEFAULT: builds a default
\* listener and a processor.  Nothing is locked between the ao2_find and the
\* ao2_link of ast_taskprocessor_create_with_listener.
GetCreate(c) ==
    /\ pc[c] = "idle" /\ ops[c] < MaxOps
    /\ \E name \in Names, create \in Modes :
         /\ ~ast_strlen_zero(name)
         /\ Matches(name) = {}
         /\ create # "TPS_REF_IF_EXISTS"
         /\ Build(c, name, "default", "get")
    /\ hist' = [q \in ProcIds |-> IF tps[q].st = "none" /\ tps'[q].st # "none"
                                  THEN [hist[q] EXCEPT !.by = loc'[c].op]
                                  ELSE hist[q]]
    /\ ops' = [ops EXCEPT ![c] = @ + 1]
    /\ UNCHANGED <<registry, wk, held, nextTask, pushed, started, unlockedUnheld>>

\* A caller of ast_taskprocessor_create_with_listener with a listener of its
\* own callbacks: it allocates the listener, creates, and drops its listener
\* reference afterwards, as ast_taskprocessor_get does.
CallCreate(c) ==
    /\ pc[c] = "idle" /\ ops[c] < MaxOps
    /\ \E name \in Names :
         /\ ~ast_strlen_zero(name)
         /\ Build(c, name, "custom", "create")
    /\ hist' = [q \in ProcIds |-> IF tps[q].st = "none" /\ tps'[q].st # "none"
                                  THEN [hist[q] EXCEPT !.by = loc'[c].op]
                                  ELSE hist[q]]
    /\ ops' = [ops EXCEPT ![c] = @ + 1]
    /\ UNCHANGED <<registry, wk, held, nextTask, pushed, started, unlockedUnheld>>

\* ao2_link(tps_singletons, p): the container takes a reference; it does not
\* compare names.  On failure the function returns NULL and RAII_VAR releases
\* the local reference only.
CreateLink(c) ==
    /\ pc[c] = "link"
    /\ LET p == loc[c].p IN
       \E ok \in BOOLEAN :
         IF ok
         THEN /\ registry' = registry \cup {p}
              /\ tps' = [tps EXCEPT ![p].ref = @ + 1]
              /\ pc' = [pc EXCEPT ![c] = "start"]
              /\ UNCHANGED <<lst, loc>>
         ELSE /\ tps' = UnrefTps(tps, lst, p)[1]
              /\ lst' = UnrefTps(tps, lst, p)[2]
              /\ loc' = [loc EXCEPT ![c].cause = "link"]
              /\ pc' = [pc EXCEPT ![c] = "get_ret"]
              /\ registry' = registry
    /\ UNCHANGED <<wk, held, ops, nextTask, pushed, started, hist,
                   unlockedUnheld, crashed>>

\* ------------------------------------------------------------ unreference
\* ast_taskprocessor_unreference, its ao2_ref(tps, -1) > 3 test: the caller's
\* reference goes; the call finalizes when the count it saw was 3 or less.
UnrefDec(t, q, to, frame) ==
    LET old == tps[q].ref IN
    /\ tps' = UnrefTps(tps, lst, q)[1]
    /\ lst' = UnrefTps(tps, lst, q)[2]
    /\ loc' = [loc EXCEPT ![t] = [frame EXCEPT !.p = q, !.fin = (old <= 3),
                                      !.retpc = IF old > 3 THEN "" ELSE to]]
    /\ pc' = [pc EXCEPT ![t] = IF old > 3 THEN to ELSE "u_unlink"]

\* Fault injection: a start callback that spawns a second worker thread.
default_listener_start_two(W, l, w) ==
    LET mine == [NoWk EXCEPT !.l = l, !.tps = lst[l].tps]
        rest == FreeWks \ {w}
    IN [x \in DOMAIN W |->
          IF x = w \/ (rest # {} /\ x = Min(rest)) THEN mine ELSE W[x]]
\* default_listener_start: pthread_create of tps_processing_function, which
\* reads listener->tps when it starts.  Returns the worker table.
default_listener_start(W, l, w) ==
    [W EXCEPT ![w] = [NoWk EXCEPT !.l = l, !.tps = lst[l].tps]]

\* The listener's start callback and the return of
\* ast_taskprocessor_create_with_listener.  On success the function returns p
\* (the reference it adds for the caller replaces the local one RAII_VAR
\* drops).  On failure it calls ast_taskprocessor_unreference(p).
CreateStart(c) ==
    /\ pc[c] = "start"
    /\ tps[loc[c].p].listener # NULL
    /\ LET p == loc[c].p
           l == tps[p].listener
       IN
       \E ok \in BOOLEAN :
         IF ok /\ (lst[l].kind = "default" => FreeWks # {})
         THEN /\ IF lst[l].kind = "default"
                 THEN LET w == Min(FreeWks) IN
                      /\ wk' = default_listener_start(wk, l, w)
                      /\ lst' = [lst EXCEPT ![l].poll_thread = w]
                 ELSE UNCHANGED <<wk, lst>>
              /\ pc' = [pc EXCEPT ![c] = "get_ret"]
              /\ loc' = [loc EXCEPT ![c].ret = p]
              /\ tps' = tps
         ELSE /\ UnrefDec(c, p, "cwl_fail", loc[c])
              /\ wk' = wk
    /\ UNCHANGED <<registry, held, ops, nextTask, pushed, started, hist,
                   unlockedUnheld, crashed>>

\* After the failed start: return NULL, and RAII_VAR releases p once more.
CreateFailReturn(c) ==
    /\ pc[c] = "cwl_fail"
    /\ tps' = UnrefTps(tps, lst, loc[c].p)[1]
    /\ lst' = UnrefTps(tps, lst, loc[c].p)[2]
    /\ loc' = [loc EXCEPT ![c].cause = "start", ![c].ret = NULL]
    /\ pc' = [pc EXCEPT ![c] = "get_ret"]
    /\ UNCHANGED <<registry, wk, held, ops, nextTask, pushed, started, hist,
                   unlockedUnheld, crashed>>

\* Back in ast_taskprocessor_get (or the caller that supplied the listener):
\* ao2_ref(listener, -1) on both outcomes, then return p or NULL.
GetReturn(c) ==
    /\ pc[c] = "get_ret"
    /\ lst' = UnrefLst(lst, loc[c].l)
    /\ held' = IF loc[c].ret # NULL
               THEN [held EXCEPT ![c][loc[c].ret] = @ + 1] ELSE held
    /\ loc' = [loc EXCEPT ![c] = Result(@)]
    /\ pc' = [pc EXCEPT ![c] = "idle"]
    /\ UNCHANGED <<registry, tps, wk, ops, nextTask, pushed, started, hist,
                   unlockedUnheld, crashed>>

\* A client calls ast_taskprocessor_unreference on a reference it holds.
Unreference(c) ==
    /\ pc[c] = "idle" /\ ops[c] < MaxOps
    /\ \E q \in ProcIds :
         /\ held[c][q] > 0
         /\ held' = [held EXCEPT ![c][q] = @ - 1]
         /\ UnrefDec(c, q, "idle", [NoLoc EXCEPT !.op = "unref"])
    /\ ops' = [ops EXCEPT ![c] = @ + 1]
    /\ UNCHANGED <<registry, wk, nextTask, pushed, started, hist,
                   unlockedUnheld, crashed>>

\* ao2_unlink(tps_singletons, tps): drops the container's reference if linked.
UnrefUnlink(t) ==
    /\ pc[t] = "u_unlink"
    /\ LET q == loc[t].p IN
       IF q \in registry
       THEN /\ registry' = registry \ {q}
            /\ tps' = UnrefTps(tps, lst, q)[1]
            /\ lst' = UnrefTps(tps, lst, q)[2]
            /\ hist' = [hist EXCEPT ![q].unlinked = TRUE]
       ELSE UNCHANGED <<registry, tps, lst, hist>>
    /\ pc' = [pc EXCEPT ![t] = "u_read"]
    /\ UNCHANGED <<wk, loc, held, ops, nextTask, pushed, started,
                   unlockedUnheld, crashed>>

\* listener = tps->listener;
UnrefReadListener(t) ==
    /\ pc[t] = "u_read"
    /\ loc' = [loc EXCEPT ![t].l = tps[loc[t].p].listener]
    /\ pc' = [pc EXCEPT ![t] = "u_write"]
    /\ UNCHANGED <<registry, tps, lst, wk, held, ops, nextTask, pushed, started,
                   hist, unlockedUnheld, crashed>>

\* tps->listener = NULL;
UnrefClearListener(t) ==
    /\ pc[t] = "u_write"
    /\ tps' = [tps EXCEPT ![loc[t].p].listener = NULL]
    /\ pc' = [pc EXCEPT ![t] = "shut"]
    /\ UNCHANGED <<registry, lst, wk, loc, held, ops, nextTask, pushed, started,
                   hist, unlockedUnheld, crashed>>

\* Fault injection: a wake-up that forgets to raise wake_up.
default_tps_wake_up_silent(L, l, should_die) ==
    [L EXCEPT ![l].dead = should_die]
\* default_tps_wake_up(pvt, should_die), under pvt->lock.
default_tps_wake_up(L, l, should_die) ==
    [L EXCEPT ![l].wake_up = 1, ![l].dead = should_die]

\* listener_shutdown calls listener->callbacks->shutdown(listener).  The
\* default listener wakes the worker with should_die = 1; a caller's own
\* callback has nothing to stop.
ListenerShutdown(t) ==
    /\ pc[t] = "shut"
    /\ loc[t].l # NULL
    /\ LET l == loc[t].l IN
       IF lst[l].kind = "default"
       THEN /\ lst' = default_tps_wake_up(lst, l, 1)
            /\ pc' = [pc EXCEPT ![t] = "joincall"]
       ELSE /\ pc' = [pc EXCEPT ![t] = "shut_unref"]
            /\ lst' = lst
    /\ hist' = [hist EXCEPT ![loc[t].p].shut = TRUE]
    /\ UNCHANGED <<registry, tps, wk, loc, held, ops, nextTask, pushed, started,
                   unlockedUnheld, crashed>>

\* pthread_join(pvt->poll_thread, NULL) is called.  Joining AST_PTHREADT_NULL,
\* a thread already joined, or one another thread is joining is an error the
\* code ignores: the call comes back at once.  Otherwise the caller blocks.
JoinCall(t) ==
    /\ pc[t] = "joincall"
    /\ LET l == loc[t].l
           w == lst[l].poll_thread
       IN
       IF w = NULL \/ (w # NULL /\ (wk[w].joined \/ wk[w].joiner # NULL))
       THEN /\ lst' = [lst EXCEPT ![l].poll_thread = NULL]
            /\ pc' = [pc EXCEPT ![t] = "shut_unref"]
            /\ UNCHANGED <<wk, loc>>
       ELSE /\ wk' = [wk EXCEPT ![w].joiner = t]
            /\ loc' = [loc EXCEPT ![t].jt = w]
            /\ pc' = [pc EXCEPT ![t] = "join"]
            /\ lst' = lst
    /\ UNCHANGED <<registry, tps, held, ops, nextTask, pushed, started, hist,
                   unlockedUnheld, crashed>>

\* pthread_join returns once the worker has left tps_processing_function;
\* then pvt->poll_thread = AST_PTHREADT_NULL.
JoinReturn(t) ==
    /\ pc[t] = "join"
    /\ pc[loc[t].jt] = "exited"
    /\ wk' = [wk EXCEPT ![loc[t].jt].joined = TRUE]
    /\ lst' = [lst EXCEPT ![loc[t].l].poll_thread = NULL]
    /\ pc' = [pc EXCEPT ![t] = "shut_unref"]
    /\ UNCHANGED <<registry, tps, loc, held, ops, nextTask, pushed, started,
                   hist, unlockedUnheld, crashed>>

\* listener_shutdown: ao2_ref(listener->tps, -1); listener->tps = NULL.
\* ao2_ref of NULL is an error return without effect.
ListenerSever(t) ==
    /\ pc[t] = "shut_unref"
    /\ LET l == loc[t].l
           q == lst[l].tps
           R == UnrefTps(tps, lst, q)
       IN
       IF q # NULL
       THEN /\ tps' = R[1]
            /\ lst' = [R[2] EXCEPT ![l].tps = NULL]
       ELSE UNCHANGED <<tps, lst>>
    /\ pc' = [pc EXCEPT ![t] = "u_release"]
    /\ UNCHANGED <<registry, wk, loc, held, ops, nextTask, pushed, started,
                   hist, unlockedUnheld, crashed>>

\* ao2_ref(listener, -1) and the return of ast_taskprocessor_unreference.
UnrefRelease(t) ==
    /\ pc[t] = "u_release"
    /\ lst' = UnrefLst(lst, loc[t].l)
    /\ hist' = [hist EXCEPT ![loc[t].p].finalRet = TRUE]
    /\ loc' = [loc EXCEPT ![t] = IF loc[t].retpc = "idle" THEN Result(@)
                                  ELSE [@ EXCEPT !.retpc = ""]]
    /\ pc' = [pc EXCEPT ![t] = loc[t].retpc]
    /\ UNCHANGED <<registry, tps, wk, held, ops, nextTask, pushed, started,
                   unlockedUnheld, crashed>>

\* ------------------------------------------------------------ push
\* Fault injection: insertion at the head of the queue.
InsertHead(queue, task) == <<task>> \o queue
\* AST_LIST_INSERT_TAIL(&tps->tps_queue, t, list)
InsertTail(queue, task) == Append(queue, task)

\* No thread holds the lock of processor q: ao2_lock(tps) can be taken.
LockFree(q) == \A t \in Threads : loc[t].lk # q

\* Fault injection: a push that calls task_pushed before its ao2_unlock.
PushUnlockLate(q) == q
\* The processor lock the pushing thread holds when it goes on to call
\* task_pushed: ao2_unlock(tps) has run, none.
PushUnlock(q) == NULL

\* ast_taskprocessor_push up to ao2_unlock: allocate the task, append it and
\* count it under the processor's lock, keeping the size seen before.
PushLocked(t, q, task, to, frame) ==
    /\ LockFree(q)
    /\ tps' = [tps EXCEPT ![q].queue = InsertTail(@, task),
                          ![q].tps_queue_size = @ + 1]
    /\ loc' = [loc EXCEPT ![t] = [frame EXCEPT !.p = q, !.retpc = to,
                                      !.prev = tps[q].tps_queue_size,
                                      !.lk = PushUnlock(q)]]
    /\ pushed' = [pushed EXCEPT ![q] = Append(@, task.id)]
    /\ hist' = [hist EXCEPT ![q].burst = IF started[q] = << >> THEN @ + 1 ELSE @]
    /\ nextTask' = nextTask + 1
    /\ pc' = [pc EXCEPT ![t] = "push_read"]

\* A client pushes a task to a processor it holds a reference to; the task's
\* callback may itself push one task to the processor that runs it.
Push(c) ==
    /\ pc[c] = "idle" /\ ops[c] < MaxOps
    /\ nextTask < MaxTasks
    /\ \E q \in ProcIds, self \in BOOLEAN :
         /\ held[c][q] > 0
         /\ PushLocked(c, q, [id |-> nextTask + 1, self |-> self], "idle",
                       [NoLoc EXCEPT !.op = "push"])
    /\ ops' = [ops EXCEPT ![c] = @ + 1]
    /\ UNCHANGED <<registry, lst, wk, held, started, unlockedUnheld, crashed>>

\* tps_task_alloc fails: ast_taskprocessor_push returns -1, nothing is queued.
PushAllocFail(c) ==
    /\ pc[c] = "idle" /\ ops[c] < MaxOps
    /\ \E q \in ProcIds :
         /\ held[c][q] > 0
         /\ loc' = [loc EXCEPT ![c] = Result([NoLoc EXCEPT !.op = "push",
                                        !.p = q, !.cause = "task_alloc"])]
    /\ ops' = [ops EXCEPT ![c] = @ + 1]
    /\ UNCHANGED <<registry, tps, lst, wk, pc, held, nextTask, pushed, started,
                   hist, unlockedUnheld, crashed>>

\* tps->listener->callbacks->task_pushed(tps->listener, previous_size ? 0 : 1):
\* the listener is read from the processor after the lock is released.
\* default_task_pushed does nothing unless was_empty; a caller's own callback
\* does nothing to the state modelled here.
PushReadListener(t) ==
    /\ pc[t] = "push_read"
    /\ tps[loc[t].p].listener # NULL
    /\ LET l == tps[loc[t].p].listener IN
       IF lst[l].kind = "default" /\ loc[t].prev = 0
       THEN /\ loc' = [loc EXCEPT ![t].l = l]
            /\ pc' = [pc EXCEPT ![t] = "push_notify"]
       ELSE /\ loc' = [loc EXCEPT ![t] = Result(@)]
            /\ pc' = [pc EXCEPT ![t] = loc[t].retpc]
    /\ UNCHANGED <<registry, tps, lst, wk, held, ops, nextTask, pushed, started,
                   hist, unlockedUnheld, crashed>>

\* default_task_pushed with was_empty: default_tps_wake_up(pvt, 0).
default_task_pushed(t) ==
    /\ pc[t] = "push_notify"
    /\ lst' = default_tps_wake_up(lst, loc[t].l, 0)
    /\ loc' = [loc EXCEPT ![t] = Result(@)]
    /\ pc' = [pc EXCEPT ![t] = loc[t].retpc]
    /\ UNCHANGED <<registry, tps, wk, held, ops, nextTask, pushed, started,
                   hist, unlockedUnheld, crashed>>

\* ------------------------------------------------------------ the worker
\* Fault injection: a pop that forgets to count the task it removed.
tps_taskprocessor_pop_uncounted(T, q) ==
    IF T[q].shutting_down \/ T[q].queue = << >>
    THEN << NoTask, T >>
    ELSE << Head(T[q].queue), [T EXCEPT ![q].queue = Tail(@)] >>
\* Fault injection: a pop that leaves the head in the queue.
tps_taskprocessor_peek(T, q) ==
    IF T[q].shutting_down \/ T[q].queue = << >>
    THEN << NoTask, T >>
    ELSE << Head(T[q].queue), T >>
\* tps_taskprocessor_pop: NULL when shutting down or empty, else the head.
tps_taskprocessor_pop(T, q) ==
    IF T[q].shutting_down \/ T[q].queue = << >>
    THEN << NoTask, T >>
    ELSE << Head(T[q].queue),
            [T EXCEPT ![q].queue = Tail(@), ![q].tps_queue_size = @ - 1] >>

\* The processor lock held when tps_taskprocessor_pop has returned: its
\* SCOPED_AO2LOCK went out of scope, none.
PopUnlock(q) == NULL
\* The processor lock held after the statistics section of
\* ast_taskprocessor_execute, when emptied is called: ao2_unlock has run, none.
StatsUnlock(q) == NULL

\* tps_processing_function calls ast_taskprocessor_execute: with no task it
\* returns 0 and the worker goes to default_tps_idle; else the callback starts.
WorkerPop(w) ==
    /\ wk[w].l # NULL
    /\ pc[w] = "pop"
    /\ LockFree(wk[w].tps)
    /\ LET q == wk[w].tps
           R == tps_taskprocessor_pop(tps, q)
       IN
       IF R[1] = NoTask
       THEN /\ pc' = [pc EXCEPT ![w] = "idle"]
            /\ UNCHANGED <<tps, loc, started>>
       ELSE /\ tps' = R[2]
            /\ loc' = [loc EXCEPT ![w] = [NoLoc EXCEPT !.task = R[1],
                                                       !.lk = PopUnlock(q)]]
            /\ started' = [started EXCEPT ![q] = Append(@, R[1].id)]
            /\ pc' = [pc EXCEPT ![w] = "run"]
    /\ UNCHANGED <<registry, lst, wk, held, ops, nextTask, pushed, hist,
                   unlockedUnheld, crashed>>

\* The running callback pushes a task to its own processor (at most once).
TaskSelfPush(w) ==
    /\ wk[w].l # NULL
    /\ pc[w] = "run" /\ loc[w].task.self
    /\ IF nextTask < MaxTasks
       THEN PushLocked(w, wk[w].tps, [id |-> nextTask + 1, self |-> FALSE], "run",
                       [loc[w] EXCEPT !.task.self = FALSE])
       ELSE /\ loc' = [loc EXCEPT ![w].task.self = FALSE]
            /\ UNCHANGED <<tps, pushed, nextTask, pc, hist>>
    /\ UNCHANGED <<registry, lst, wk, held, ops, started, unlockedUnheld,
                   crashed>>

\* The statistics of ast_taskprocessor_execute, under the processor's lock.
UpdateStats(rec) ==
    IF rec.stats
    THEN [rec EXCEPT !.processed = @ + 1,
                     !.max_qsize = IF rec.tps_queue_size > @
                                   THEN rec.tps_queue_size ELSE @]
    ELSE rec

\* What ast_taskprocessor_execute returns after it ran a task, from the queue
\* size it read under the lock: 0 with the queue empty, else 1.
ExecuteResult(size) == IF size = 0 THEN 0 ELSE 1

\* ast_taskprocessor_execute after the callback returned: free the task, update
\* the statistics under the lock; with the queue empty call
\* tps->listener->callbacks->emptied and return 0, else return 1.  The worker
\* idles on 0 and loops on 1.
WorkerTaskEnd(w) ==
    /\ wk[w].l # NULL
    /\ pc[w] = "run" /\ ~loc[w].task.self
    /\ LockFree(wk[w].tps)
    /\ LET q == wk[w].tps
           size == tps[q].tps_queue_size
       IN
       /\ size = 0 => tps[q].listener # NULL
       /\ tps' = [tps EXCEPT ![q] = UpdateStats(@)]
       /\ pc' = [pc EXCEPT ![w] = IF ExecuteResult(size) = 0 THEN "idle"
                                  ELSE "pop"]
    /\ loc' = [loc EXCEPT ![w] = [NoLoc EXCEPT !.lk = StatsUnlock(wk[w].tps)]]
    /\ UNCHANGED <<registry, lst, wk, held, ops, nextTask, pushed, started, hist,
                   unlockedUnheld, crashed>>

\* default_tps_idle: wait until wake_up, clear it, return dead; the worker
\* leaves its loop when dead.
default_tps_idle(w) ==
    /\ wk[w].l # NULL
    /\ pc[w] = "idle"
    /\ lst[wk[w].l].wake_up = 1
    /\ lst' = [lst EXCEPT ![wk[w].l].wake_up = 0]
    /\ pc' = [pc EXCEPT ![w] = IF lst[wk[w].l].dead = 1 THEN "exited" ELSE "pop"]
    /\ UNCHANGED <<registry, tps, wk, loc, held, ops, nextTask, pushed, started,
                   hist, unlockedUnheld, crashed>>

\* ------------------------------------------------------------ fatal accesses
\* The thread's next statement dereferences a NULL pointer: the listener that
\* ast_taskprocessor_unreference cleared, read by task_pushed's call or by
\* listener_shutdown's.
NullDeref(t) ==
    IF pc[t] = "push_read" THEN tps[loc[t].p].listener = NULL
    ELSE IF pc[t] = "shut" THEN loc[t].l = NULL
    ELSE IF pc[t] = "start" THEN tps[loc[t].p].listener = NULL
    ELSE FALSE

\* The thread's next statement reads or writes an object already destroyed,
\* or hands pthread_join a thread id that is not joinable: the access may
\* fault, or go through on what the memory still holds.
TpsPcs == {"u_unlink", "u_read", "u_write", "push_read", "cwl_fail"}
LstPcs == {"shut", "joincall", "shut_unref", "u_release", "push_notify", "get_ret"}

BadAccess(t) ==
    IF t \in WorkerIds /\ wk[t].l = NULL THEN FALSE
    ELSE IF t \in WorkerIds /\ pc[t] \in {"pop", "run"} THEN tps[wk[t].tps].st = "freed"
    ELSE IF t \in WorkerIds /\ pc[t] = "idle" THEN lst[wk[t].l].st = "freed"
    ELSE IF pc[t] \in TpsPcs THEN tps[loc[t].p].st = "freed"
    ELSE IF pc[t] \in LstPcs /\ loc[t].l # NULL
         THEN IF lst[loc[t].l].st = "freed" THEN TRUE
              ELSE IF pc[t] = "joincall"
                   THEN LET w == lst[loc[t].l].poll_thread IN
                        IF w = NULL THEN TRUE ELSE wk[w].joined \/ wk[w].joiner # NULL
                   ELSE FALSE
    ELSE FALSE

Segfault ==
    /\ \E t \in Threads : NullDeref(t) \/ BadAccess(t)
    /\ crashed' = TRUE
    /\ pc' = Crashed
    /\ UNCHANGED <<registry, tps, lst, wk, loc, held, ops, nextTask, pushed,
                   started, hist, unlockedUnheld>>

\* ast_taskprocessor_execute with the queue empty after the task and the
\* listener already cleared: the statistics are updated, then
\* tps->listener->callbacks->emptied dereferences NULL.
EmptiedNull(w) ==
    /\ wk[w].l # NULL
    /\ pc[w] = "run" /\ ~loc[w].task.self
    /\ tps[wk[w].tps].tps_queue_size = 0
    /\ tps[wk[w].tps].listener = NULL
    /\ tps' = [tps EXCEPT ![wk[w].tps] = UpdateStats(@)]
    /\ crashed' = TRUE
    /\ pc' = Crashed
    /\ UNCHANGED <<registry, lst, wk, loc, held, ops, nextTask, pushed,
                   started, hist, unlockedUnheld>>

\* ------------------------------------------------------------ specifications
ClientStep(c) ==
    \/ GetNameless(c) \/ GetFound(c) \/ GetMissing(c) \/ GetCreate(c)
    \/ CallCreate(c) \/ CreateLink(c)
    \/ CreateStart(c) \/ CreateFailReturn(c) \/ GetReturn(c)
    \/ Unreference(c) \/ Push(c) \/ PushAllocFail(c)

FinalizeStep(t) ==
    \/ UnrefUnlink(t) \/ UnrefReadListener(t) \/ UnrefClearListener(t)
    \/ ListenerShutdown(t) \/ JoinCall(t) \/ JoinReturn(t)
    \/ ListenerSever(t) \/ UnrefRelease(t)

PushStep(t) == PushReadListener(t) \/ default_task_pushed(t)

WorkerStep(w) ==
    \/ WorkerPop(w) \/ TaskSelfPush(w) \/ WorkerTaskEnd(w) \/ default_tps_idle(w)

Next ==
    \/ \E c \in Clients : ClientStep(c) \/ FinalizeStep(c)
    \/ \E t \in Threads : PushStep(t)
    \/ \E w \in WorkerIds : WorkerStep(w) \/ EmptiedNull(w)
    \/ Segfault

Spec == Init /\ [][Next]_vars

\* ------------------------------------------------------------ a live processor
\* The state after client 1 created processor 1 by ast_taskprocessor_get("a")
\* and every other client was handed it by the same call: the registry's, the
\* listener's and one reference per client; the worker has just been started.
FirstWorker == Min(WorkerIds)

InitLive ==
    /\ registry = {1}
    /\ tps = [q \in ProcIds |->
               IF q = 1 THEN [NoTps EXCEPT !.st = "live", !.name = "a",
                                 !.ref = 2 + NumClients, !.stats = TRUE,
                                 !.listener = 1]
               ELSE NoTps]
    /\ lst = [m \in LstIds |->
               IF m = 1 THEN [NoLst EXCEPT !.st = "live", !.ref = 1, !.tps = 1,
                                 !.poll_thread = FirstWorker]
               ELSE NoLst]
    /\ wk = [w \in WorkerIds |->
              IF w = FirstWorker THEN [NoWk EXCEPT !.l = 1, !.tps = 1] ELSE NoWk]
    /\ pc = [t \in Threads |-> IF t \in Clients THEN "idle" ELSE "pop"]
    /\ loc = [t \in Threads |-> NoLoc]
    /\ held = [c \in Clients |-> [q \in ProcIds |-> IF q = 1 THEN 1 ELSE 0]]
    /\ ops = [c \in Clients |-> 0]
    /\ nextTask = 0
    /\ pushed = [q \in ProcIds |-> << >>]
    /\ started = [q \in ProcIds |-> << >>]
    /\ hist = [q \in ProcIds |-> NoHist]
    /\ unlockedUnheld = (NumClients > 1)
    /\ crashed = FALSE

\* Producers push, the worker drains; nobody releases a reference.
NextLive ==
    \/ \E c \in Clients : Push(c) \/ PushAllocFail(c)
    \/ \E t \in Threads : PushStep(t)
    \/ \E w \in WorkerIds : WorkerStep(w)

SpecLive == InitLive /\ [][NextLive]_vars

\* The scheduler runs every thread that can take a step: a worker in its
\* loop, a thread between the unlock of a push and its task_pushed call.
FairLive ==
    /\ \A w \in WorkerIds : WF_vars(WorkerStep(w))
    /\ \A t \in Threads : WF_vars(PushStep(t))

SpecLiveFair == SpecLive /\ FairLive

\* ------------------------------------------------------------ observations
Range(f) == {f[i] : i \in DOMAIN f}
IsPrefix(a, b) == Len(a) <= Len(b) /\ \A i \in 1..Len(a) : a[i] = b[i]
NoDup(f) == \A i, j \in DOMAIN f : i # j => f[i] # f[j]

\* The worker threads started for processor q.
WorkersOf(q) == {w \in WorkerIds : wk[w].l # NULL /\ wk[w].tps = q}
\* A task callback is executing on w (between its start and its return).
InCallback(w) == wk[w].l # NULL /\ pc[w] \in {"run", "push_read", "push_notify"}
TaskIds == 1..MaxTasks

\* C1: the callbacks of a processor start in the order the tasks were
\* appended: the started sequence is a prefix of the pushed sequence.
C1_FifoOrder == \A q \in ProcIds : IsPrefix(started[q], pushed[q])
\* two tasks ran in order while a third, pushed later, still waits
C1_Witness == Len(started[1]) = 2 /\ Len(pushed[1]) = 3

\* C2: a processor has at most one worker thread and at most one of its task
\* callbacks executing, whoever pushes.
C2_OneWorker ==
    \A q \in ProcIds :
       /\ Cardinality(WorkersOf(q)) <= 1
       /\ Cardinality({w \in WorkersOf(q) : InCallback(w)}) <= 1
\* a callback pushing to its own processor while a client pushes to it too
C2_Witness ==
    \E w \in WorkerIds, c \in Clients :
       /\ InCallback(w) /\ pc[w] = "push_read"
       /\ pc[c] = "push_read" /\ loc[c].p = wk[w].tps

\* C3: every task pushed is executed exactly once: no task starts twice, the
\* queue size is never negative, and with the queue drained and no callback
\* running processedCount is the number of successful pushes.
Drained(q) == tps[q].queue = << >> /\ \A w \in WorkersOf(q) : ~InCallback(w)
C3_ExactlyOnce ==
    \A q \in ProcIds :
       /\ tps[q].tps_queue_size >= 0
       /\ NoDup(started[q])
       /\ Drained(q) => /\ tps[q].processed = Len(pushed[q])
                        /\ started[q] = pushed[q]
\* all producers have pushed, from more than one thread, and all has run
C3_Witness ==
    /\ Drained(1) /\ tps[1].processed = MaxTasks
    /\ \A c \in Clients : ops[c] > 0

\* C4: under fair scheduling every task pushed is eventually executed, and
\* the worker does not stay in the idle wait while the queue is non-empty.
C4_NoLostWakeup ==
    /\ \A i \in TaskIds : (i \in Range(pushed[1])) ~> (i \in Range(started[1]))
    /\ (pc[FirstWorker] = "idle" /\ tps[1].queue # << >>)
          ~> (pc[FirstWorker] # "idle")
\* a push onto a non-empty queue, which will not signal, with the worker idle
C4_Witness ==
    \E t \in Threads : /\ pc[t] = "push_read" /\ loc[t].prev > 0
                       /\ pc[FirstWorker] = "idle"

\* ------------------------------------------------------------ fair scheduling
\* Every thread inside a call goes on with it; clients need not start calls.
\* A thread whose next statement faults does fault.
InCall(c) ==
    \/ CreateLink(c) \/ CreateStart(c) \/ CreateFailReturn(c) \/ GetReturn(c)
    \/ FinalizeStep(c)

Fair ==
    /\ \A w \in WorkerIds : WF_vars(WorkerStep(w))
    /\ \A t \in Threads : WF_vars(PushStep(t))
    /\ \A c \in Clients : WF_vars(InCall(c))
    /\ \A w \in WorkerIds : WF_vars(EmptiedNull(w))
    /\ WF_vars(Segfault)

\* The live processor with producers, the worker and the release of the
\* clients' references: the last release finalizes the processor.
NextShut ==
    \/ \E c \in Clients : Push(c) \/ PushAllocFail(c) \/ Unreference(c)
                            \/ FinalizeStep(c)
    \/ \E t \in Threads : PushStep(t)
    \/ \E w \in WorkerIds : WorkerStep(w) \/ EmptiedNull(w)
    \/ Segfault

SpecShut == InitLive /\ [][NextShut]_vars /\ Fair

\* C5: the registry never holds two processors whose names are equal
\* ignoring case: two get-or-create calls that miss on one name do not both
\* register a processor for it.
C5_UniqueNames ==
    \A q1, q2 \in registry :
       (q1 # q2 /\ hist[q1].by = "get" /\ hist[q2].by = "get") =>
          ~tps_cmp_cb(tps[q1].name, tps[q2].name)

\* C6: a processor some caller still holds an unreleased reference to is
\* neither unlinked from the registry nor shut down.
\* (Stated of the finalizations a caller's unreference call carries out.)
Finalizers(q) ==
    {d \in Clients : loc[d].op = "unref" /\ loc[d].p = q /\ loc[d].fin}
C6_NoFinalizeWhileHeld ==
    \A q \in ProcIds :
       ((hist[q].unlinked \/ hist[q].shut) /\ Finalizers(q) # {}) =>
          \A c \in Clients : held[c][q] = 0

\* C7: every call of the default listener's shutdown returns, with the worker
\* exited, and the dead flag, once set, is never cleared.
C7_ShutdownReturns ==
    \A c \in Clients :
       (pc[c] = "joincall") ~>
          (crashed \/ (pc[c] = "shut_unref" /\
                       \A w \in WorkersOf(loc[c].p) : pc[w] = "exited"))
C7_DeadSticky ==
    [][\A m \in LstIds : lst[m].dead = 1 => lst'[m].dead = 1]_vars
C7_ShutdownTerminates == C7_ShutdownReturns /\ C7_DeadSticky

\* C8: once a finalizing unreference has returned, the processor is out of
\* the registry and its worker has exited, so nothing of it runs any more;
\* and the processor's storage is released only after the worker has exited.
C8_StoppedAfterFinalize ==
    \A q \in ProcIds :
       /\ hist[q].finalRet =>
             /\ q \notin registry
             /\ \A w \in WorkersOf(q) : pc[w] = "exited"
       /\ tps[q].st = "freed" => \A w \in WorkersOf(q) : pc[w] = "exited"

\* C9: create-with-listener called while the registry holds a processor of
\* that name (ignoring case) returns failure and links nothing.
C9_DuplicateRejected ==
    \A c \in Clients :
       (pc[c] = "idle" /\ loc[c].op = "create" /\ loc[c].dup) =>
          /\ loc[c].ret = NULL
          /\ loc[c].p # NULL => loc[c].p \notin registry

\* C10: when get-or-create or create-with-listener has failed on an
\* allocation, on the registry link or on the listener start, the processor
\* being built is not in the registry and is released, and so is the default
\* listener get-or-create built.
BuildFailures == {"alloc", "stats", "name", "link", "start"}
C10_FailureUnwinds ==
    \A c \in Clients :
       (pc[c] = "idle" /\ loc[c].op \in {"get", "create"}
                       /\ loc[c].cause \in BuildFailures) =>
          /\ loc[c].p # NULL => /\ loc[c].p \notin registry
                                /\ tps[loc[c].p].st = "freed"
          /\ loc[c].op = "get" => lst[loc[c].l].st = "freed"

\* C11: a get with TPS_REF_IF_EXISTS that finds nothing returns NULL and
\* changes nothing: the registry, every processor, listener and worker, the
\* references handed out and the registry lock are as before the call.
C11_MissingNoEffect ==
    [][\A c \in Clients :
          (ops'[c] = ops[c] + 1 /\ loc'[c].op = "get"
                                /\ loc'[c].cause = "missing") =>
             /\ loc'[c].ret = NULL
             /\ UNCHANGED <<registry, tps, lst, wk, held, pushed, started,
                            unlockedUnheld>>]_vars
\* the lookup missed while another caller was building a processor
C11_Witness ==
    \E c \in Clients :
       /\ pc[c] = "idle" /\ loc[c].op = "get" /\ loc[c].cause = "missing"
       /\ \E q \in ProcIds : tps[q].st = "live" /\ q \notin registry

\* C12: the handles a caller got from get-or-create calls with names equal
\* ignoring case, none of them finalized since, are one processor.
Finalizing(q) ==
    \/ hist[q].unlinked
    \/ \E t \in Threads : loc[t].p = q /\ loc[t].fin
C12_SameProcessor ==
    \A c \in Clients : \A q1, q2 \in registry :
       (/\ held[c][q1] > 0 /\ held[c][q2] > 0
        /\ hist[q1].by = "get" /\ hist[q2].by = "get"
        /\ ~Finalizing(q1) /\ ~Finalizing(q2)
        /\ tps_cmp_cb(tps[q1].name, tps[q2].name)) => q1 = q2

\* C13: execute-one returns true exactly when it popped and ran a task.  The
\* worker calls default_tps_idle exactly when the call returned 0, so: a call
\* that ran a task is followed by the next call, not by the idle wait, and a
\* call is followed by the idle wait without a task run only when the
\* processor was shutting down or its queue was empty at the pop.
C13_ExecuteReturn ==
    [][\A w \in WorkerIds :
          /\ (pc[w] = "run" /\ pc'[w] \in {"idle", "pop"}) => pc'[w] = "pop"
          /\ (pc[w] = "pop" /\ pc'[w] = "idle") =>
                (tps[wk[w].tps].shutting_down \/ tps[wk[w].tps].queue = << >>)
      ]_vars

\* C14: when the K tasks pushed before the first pop have all completed,
\* maxQueueSize is at least K.
C14_HighWater ==
    \A q \in ProcIds :
       (tps[q].st = "live" /\ hist[q].burst >= 1
                           /\ tps[q].processed >= hist[q].burst) =>
          tps[q].max_qsize >= hist[q].burst

\* C15: once a finalizing unreference has called the listener's shutdown, no
\* task of the processor is popped any more, and shutting_down, once true,
\* stays true.
C15_NoPopAfterShutdown ==
    [][\A q \in ProcIds :
          /\ hist[q].shut => started'[q] = started[q]
          /\ tps[q].shutting_down => tps'[q].shutting_down]_vars

\* C16: with the processor lock free, queueSize is the number of tasks in
\* the queue, the popped ones not counted: the tasks pushed less the tasks
\* popped; it is 0 while the only task pushed is executing.
C16_SizeIsLength ==
    \A q \in ProcIds :
       LockFree(q) =>
          /\ tps[q].tps_queue_size = Len(tps[q].queue)
          /\ tps[q].tps_queue_size = Len(pushed[q]) - Len(started[q])
\* one task is executing and two more wait behind it
C16_Witness ==
    /\ \E w \in WorkersOf(1) : pc[w] = "run"
    /\ Len(pushed[1]) = 3 /\ Len(started[1]) = 1 /\ tps[1].tps_queue_size = 2

\* C17: no thread holds a processor's lock while it runs a task callback,
\* while it calls task_pushed or emptied, or while it takes the default
\* listener's lock (in default_tps_wake_up and default_tps_idle).
CallbackPcs == {"run", "push_read", "push_notify", "idle", "pop", "shut"}
C17_NoLockInCallback ==
    \A t \in Threads : pc[t] \in CallbackPcs => loc[t].lk = NULL
\* a running task has pushed to its own processor and is about to wake the
\* worker, which is itself
C17_Witness ==
    \E w \in WorkerIds :
       /\ pc[w] = "push_notify" /\ loc[w].task.id > 0
       /\ loc[w].p = wk[w].tps

\* C18: ast_taskprocessor_get releases the registry lock as often as it took
\* it on every branch: the lock is never released by a thread not holding it.
C18_RegistryLockBalanced == ~unlockedUnheld

\* C19: tps->listener is still bound when push calls task_pushed through it
\* and when execute-one calls emptied through it.
C19_PushBound ==
    \A t \in Threads :
       (pc[t] = "push_read" /\ tps[loc[t].p].st = "live") =>
          tps[loc[t].p].listener # NULL
C19_EmptiedBound ==
    [][\A w \in WorkerIds :
          (/\ wk[w].l # NULL /\ pc[w] = "run"
           /\ tps[wk[w].tps].st = "live"
           /\ tps[wk[w].tps].tps_queue_size = 0
           /\ tps'[wk[w].tps].processed # tps[wk[w].tps].processed) =>
             tps[wk[w].tps].listener # NULL]_vars
C19_ListenerBound == []C19_PushBound /\ C19_EmptiedBound

\* C20: no processor reference is released twice: the reference count never
\* drops below zero, so nothing is released after the destructor has run.
C20_NoOverRelease == \A q \in ProcIds : tps[q].ref >= 0

====
